---- MODULE Spec2Model ----
(***************************************************************************)
(* Model of go_vmware_api (src/main.go): a one-shot command-line probe     *)
(* that validates its flags, normalises the endpoint, opens a session to   *)
(* a vSphere endpoint, enumerates hosts or datastores through a container  *)
(* view, computes a (total, free) pair and prints a summary.               *)
(*                                                                         *)
(* Strings that the code inspects character by character (the hostname    *)
(* and the URL built from it) are sequences of one-character strings.      *)
(* Numbers are integers; the inputs are chosen so that every float64       *)
(* operation of the code is exact on them (all values are far below 2^53   *)
(* and MemorySize is a multiple of 1024*1024).                             *)
(***************************************************************************)
EXTENDS Integers, Sequences, FiniteSets, TLC

(* ---------------------------- bounds ---------------------------------- *)

\* longest hostname given on the command line (main flow)
MaxHostLen == 1
\* longest string handed to urlCheck in the stand-alone urlCheck runs
MaxUrlLen == 4
\* longest sequence of objects the container view returns
MaxObjs == 2

(* --------------------------- characters ------------------------------- *)

NL == "\n"
Alphabet == {"a", ":", "/", NL}
Letters == {"a", "h", "t", "p", "s", "d", "k"}

StringsUpTo(n) == UNION {[1..k -> Alphabet] : k \in 0..n}

HasPrefix(s, p) == Len(s) >= Len(p) /\ SubSeq(s, 1, Len(p)) = p

\* index of the first occurrence of c in s, 0 if there is none
Index(s, c) ==
  IF \E i \in 1..Len(s) : s[i] = c
    THEN CHOOSE i \in 1..Len(s) : s[i] = c /\ \A j \in 1..(i-1) : s[j] # c
    ELSE 0

\* index of the last occurrence of c in s, 0 if there is none
LastIndex(s, c) ==
  IF \E i \in 1..Len(s) : s[i] = c
    THEN CHOOSE i \in 1..Len(s) : s[i] = c /\ \A j \in (i+1)..Len(s) : s[j] # c
    ELSE 0

Count(s, c) == Cardinality({i \in 1..Len(s) : s[i] = c})

(* ------------------------- flags and defaults -------------------------- *)

DefaultWarning == 85
DefaultCritical == 90

Usernames == {"", "root"}
Passwords == {"", "secret"}
Commands == {"", "CPU", "MEM", "VMFS", "FOO"}
DatastoreNames == {"", "ds1", "ds2"}
SuppliedWarnings == {0, 50}
SuppliedCriticals == {0, 95}

\* commandChoices := map[string]string{...}
commandChoices == [MEM |-> "HostSystem", CPU |-> "HostSystem", VMFS |-> "Datastore"]

(* ------------------------ objects of the inventory --------------------- *)

\* mo.HostSystem with the properties "name" and "summary" populated
HostUniverse ==
  [Name : {"h1", "h2"},
   CpuMhz : {0, 2000},
   NumCpuCores : {4},
   OverallCpuUsage : {3000},
   MemorySize : {0, 1073741824},
   OverallMemoryUsage : {256}]

\* mo.Datastore with the properties "name" and "summary" populated; vSphere
\* reports the same name in Datastore.name and in Datastore.summary.name
DatastoreUniverse ==
  {[Name |-> n, SummaryName |-> n, Capacity |-> c, FreeSpace |-> f] :
     n \in {"ds1", "ds2"}, c \in {0, 2000}, f \in {0, 500}}

SeqsUpTo(S, n) == UNION {[1..k -> S] : k \in 0..n}

(* ------------------------------ resource ------------------------------- *)

\* e := &resource{}
ZeroResource == [name |-> "", total |-> 0, free |-> 0]

Abs(x) == IF x < 0 THEN -x ELSE x

\* fmt.Sprintf("%.2f", x) for x = n/d with d > 0, as hundredths; %.2f rounds
\* the value to the nearest hundredth, ties to even
Round2(n, d) ==
  LET a == Abs(n) * 100
      q == a \div d
      r == a % d
      m == IF 2 * r > d THEN q + 1
           ELSE IF 2 * r < d THEN q
           ELSE IF q % 2 = 0 THEN q ELSE q + 1
  IN IF n < 0 THEN -m ELSE m

\* r.free / r.total * 100 in float64, then "%.2f": a zero total yields
\* NaN (0/0), +Inf or -Inf, which Sprintf prints as such
freePer(r) ==
  IF r.total = 0
    THEN [kind |-> IF r.free = 0 THEN "NaN"
                   ELSE IF r.free > 0 THEN "+Inf" ELSE "-Inf",
          hundredths |-> 0]
    ELSE [kind |-> "num", hundredths |-> Round2(r.free * 100, r.total)]

\* datastoreStats with the two statistics exchanged
datastoreStats_Swapped(d) ==
  [name |-> d.SummaryName, total |-> d.FreeSpace, free |-> d.Capacity]

datastoreStats(d) ==
  [name |-> d.SummaryName, total |-> d.Capacity, free |-> d.FreeSpace]

\* cpuStats reporting the usage where the free capacity belongs
cpuStats_UsageAsFree(host) ==
  [name |-> host.Name,
   total |-> host.CpuMhz * host.NumCpuCores,
   free |-> host.OverallCpuUsage]

cpuStats(host) ==
  [name |-> host.Name,
   total |-> host.CpuMhz * host.NumCpuCores,
   free |-> (host.CpuMhz * host.NumCpuCores) - host.OverallCpuUsage]

memStats(host) ==
  [name |-> host.Name,
   total |-> (host.MemorySize \div 1024) \div 1024,
   free |-> ((host.MemorySize \div 1024) \div 1024) - host.OverallMemoryUsage]

(* ------------------------------ urlCheck ------------------------------- *)

Https == <<"h", "t", "t", "p", "s", ":", "/", "/">>
Sdk == <<"/", "s", "d", "k">>

\* regexp.MatchString("^.*://.*$", h): '.' matches any character but a
\* newline, ^ and $ match only at the two ends of the text
MatchString(h) ==
  /\ \E i \in 1..(Len(h) - 2) : SubSeq(h, i, i + 2) = <<":", "/", "/">>
  /\ \A i \in 1..Len(h) : h[i] # NL

urlCheck(h) ==
  IF ~MatchString(h) THEN Https \o h \o Sdk ELSE h

(* ------------------------------ url.Parse ------------------------------ *)

\* net/url parseHost on an authority without userinfo or brackets: the text
\* after the last colon must be an optional port made of digits (the alphabet
\* has no digit, so any text there is an invalid port).  Releases differ on
\* an authority with several colons and an empty port, so both outcomes are
\* possible there.
ParseHostOutcomes(a) ==
  LET last == LastIndex(a, ":")
  IN IF last = 0 THEN {TRUE}
     ELSE IF last < Len(a) THEN {FALSE}
     ELSE IF Count(a, ":") = 1 THEN {TRUE}
     ELSE BOOLEAN

\* whether url.Parse(s) returns a URL (TRUE) or (nil, err) (FALSE): a control
\* character is rejected, a leading colon is a missing scheme, and after an
\* optional scheme of letters a "//" introduces the authority.  (Without a
\* scheme the first path segment consists of letters here, so the check for
\* a colon in it never fires.)
UrlParseOutcomes(s) ==
  IF \E i \in 1..Len(s) : s[i] = NL THEN {FALSE}
  ELSE
    LET nonLetters == {i \in 1..Len(s) : s[i] \notin Letters}
        i == IF nonLetters = {} THEN 0
             ELSE CHOOSE k \in nonLetters : \A j \in nonLetters : k <= j
        hasScheme == i > 1 /\ s[i] = ":"
        rest == IF hasScheme THEN SubSeq(s, i + 1, Len(s)) ELSE s
        afterSlashes == SubSeq(rest, 3, Len(rest))
        cut == Index(afterSlashes, "/")
        authority == IF cut = 0 THEN afterSlashes
                     ELSE SubSeq(afterSlashes, 1, cut - 1)
    IN IF i = 1 /\ s[1] = ":" THEN {FALSE}
       ELSE IF /\ (hasScheme \/ ~HasPrefix(rest, <<"/", "/", "/">>))
               /\ HasPrefix(rest, <<"/", "/">>)
         THEN ParseHostOutcomes(authority)
       ELSE {TRUE}

(* ------------------------- checkRequiredOptions ------------------------ *)

NoError == "nil"

\* checkRequiredOptions with the credentials checked before the thresholds
checkRequiredOptions_Reordered(h, w, c, u, p, cmd) ==
  IF h = <<>> THEN "Hostname is required"
  ELSE IF u = "" THEN "Must supply the username"
  ELSE IF p = "" THEN "Must supply the password"
  ELSE IF w = 0 THEN "Must supply the warning percentage"
  ELSE IF c = 0 THEN "Must supply the critical percentage"
  ELSE IF cmd = "" THEN "Must supply the command"
  ELSE NoError

checkRequiredOptions(h, w, c, u, p, cmd) ==
  IF h = <<>> THEN "Hostname is required"
  ELSE IF w = 0 THEN "Must supply the warning percentage"
  ELSE IF c = 0 THEN "Must supply the critical percentage"
  ELSE IF u = "" THEN "Must supply the username"
  ELSE IF p = "" THEN "Must supply the password"
  ELSE IF cmd = "" THEN "Must supply the command"
  ELSE NoError

(* ------------------------------- state --------------------------------- *)

VARIABLES
  hostname, username, password, command, datastore, warning, critical,
  given,      \* the threshold flags present on the command line
  pc,         \* position in main
  err,        \* result of checkRequiredOptions
  url,        \* urlCheck(hostname), once computed
  u,          \* the parsed URL: "unset", "nil" or "url"
  responses,  \* what the Management Session answered to each call, in order
  calls,      \* Management Session calls made so far, in order
  view,       \* "none", "open" or "destroyed"
  deferred,   \* whether defer v.Destroy(ctx) has been registered
  hss, ds,    \* the retrieved objects
  idx,        \* position of the range loop
  e,          \* the resource
  examined,   \* names printed by the loops, in order
  summary,    \* the summary lines printed, at most one
  exitCode,   \* exit status, -1 while running
  cause       \* the path that ended the process

vars == <<hostname, username, password, command, datastore, warning, critical,
          given, pc, err, url, u, responses, calls, view, deferred, hss, ds, idx, e,
          examined, summary, exitCode, cause>>

flagVars == <<hostname, username, password, command, datastore, warning,
              critical, given>>

Running == -1

\* the state after the package initialisation: the flag defaults of init()
InitCommon ==
  /\ username = "" /\ password = "" /\ command = "" /\ datastore = ""
  /\ warning = DefaultWarning /\ critical = DefaultCritical
  /\ given = {}
  /\ err = NoError
  /\ url = <<>>
  /\ u = "unset"
  /\ responses = <<>>
  /\ calls = <<>>
  /\ view = "none"
  /\ deferred = FALSE
  /\ hss = <<>> /\ ds = <<>>
  /\ idx = 1
  /\ e = ZeroResource
  /\ examined = <<>>
  /\ summary = <<>>
  /\ exitCode = Running
  /\ cause = "running"

Init ==
  /\ InitCommon
  /\ hostname = <<>>
  /\ pc = "parse"

\* os.Exit(code), log.Fatal (exit status 1) and an unrecovered panic (exit
\* status 2) all end the process at once: deferred calls do not run
Exit(code, why) ==
  /\ pc' = "exited"
  /\ exitCode' = code
  /\ cause' = why

Continue(next) ==
  /\ pc' = next
  /\ UNCHANGED <<exitCode, cause>>

(* ------------------------------ actions -------------------------------- *)

\* pflag.Parse(): every flag is either absent (default kept) or supplied
ParseFlags ==
  /\ pc = "parse"
  /\ hostname' \in StringsUpTo(MaxHostLen)
  /\ username' \in Usernames
  /\ password' \in Passwords
  /\ command' \in Commands
  /\ datastore' \in DatastoreNames
  /\ given' \in SUBSET {"warning", "critical"}
  /\ warning' \in (IF "warning" \in given' THEN SuppliedWarnings ELSE {DefaultWarning})
  /\ critical' \in (IF "critical" \in given' THEN SuppliedCriticals ELSE {DefaultCritical})
  /\ Continue("check")
  /\ UNCHANGED <<u, responses, err, url, calls, view, deferred, hss, ds, idx, e, examined, summary>>

\* err := checkRequiredOptions(); if err != nil { pflag.Usage(); log.Fatal(err) }
CheckRequired ==
  /\ pc = "check"
  /\ err' = checkRequiredOptions(hostname, warning, critical, username, password, command)
  /\ IF err' # NoError THEN Exit(1, "validation") ELSE Continue("choice")
  /\ UNCHANGED <<flagVars, u, responses, url, calls, view, deferred, hss, ds, idx, e, examined, summary>>

\* if _, validChoice := commandChoices[command]; !validChoice { ...; os.Exit(2) }
CheckCommandChoice ==
  /\ pc = "choice"
  /\ IF command \notin DOMAIN commandChoices
       THEN Exit(2, "choice") ELSE Continue("storage")
  /\ UNCHANGED <<flagVars, u, responses, err, url, calls, view, deferred, hss, ds, idx, e, examined, summary>>

\* if command == "VMFS" && datastore == "" { ...; os.Exit(2) }
CheckDatastoreName ==
  /\ pc = "storage"
  /\ IF command = "VMFS" /\ datastore = ""
       THEN Exit(2, "storage") ELSE Continue("url")
  /\ UNCHANGED <<flagVars, u, responses, err, url, calls, view, deferred, hss, ds, idx, e, examined, summary>>

\* u, _ := url.Parse(urlCheck(hostname)); u.User = ...: when the parse fails
\* u is nil and the assignment panics
BuildURL ==
  /\ pc = "url"
  /\ url' = urlCheck(hostname)
  /\ \E ok \in UrlParseOutcomes(url') :
       IF ok THEN u' = "url" /\ Continue("client")
             ELSE u' = "nil" /\ Exit(2, "panic")
  /\ UNCHANGED <<flagVars, responses, err, calls, view, deferred, hss, ds, idx, e, examined, summary>>

\* c, err := govmomi.NewClient(ctx, u, true); if err != nil { log.Fatal(err) }
NewClient ==
  /\ pc = "client"
  /\ calls' = Append(calls, "NewClient")
  /\ \E ok \in BOOLEAN :
       IF ok THEN responses' = Append(responses, "ok") /\ Continue("view")
             ELSE responses' = Append(responses, "error") /\ Exit(1, "connect")
  /\ UNCHANGED <<flagVars, u, err, url, view, deferred, hss, ds, idx, e, examined, summary>>

\* v, err := m.CreateContainerView(...); if err != nil { log.Fatal(err) }
\* defer v.Destroy(ctx); e := &resource{}
CreateContainerView ==
  /\ pc = "view"
  /\ calls' = Append(calls, "CreateContainerView")
  /\ \E ok \in BOOLEAN :
       IF ok
         THEN /\ responses' = Append(responses, "ok")
              /\ view' = "open"
              /\ deferred' = TRUE
              /\ e' = ZeroResource
              /\ Continue("retrieve")
         ELSE /\ responses' = Append(responses, "error")
              /\ UNCHANGED <<view, deferred, e>>
              /\ Exit(1, "createview")
  /\ UNCHANGED <<flagVars, u, err, url, hss, ds, idx, examined, summary>>

\* command == "VMFS": err = v.Retrieve(..., &ds); if err != nil { log.Fatal(err) }
RetrieveDatastores ==
  /\ pc = "retrieve"
  /\ command = "VMFS"
  /\ calls' = Append(calls, "Retrieve")
  /\ \/ /\ responses' = Append(responses, "ok")
        /\ ds' \in SeqsUpTo(DatastoreUniverse, MaxObjs)
        /\ idx' = 1
        /\ Continue("scan")
     \/ /\ responses' = Append(responses, "error")
        /\ UNCHANGED <<ds, idx>>
        /\ Exit(1, "retrieve")
  /\ UNCHANGED <<flagVars, u, err, url, view, deferred, hss, e, examined, summary>>

\* one iteration of: for _, host := range ds { ...; if datastore == host.Name
\* { e = datastoreStats(host); break } }
ScanDatastore ==
  /\ pc = "scan"
  /\ IF idx > Len(ds)
       THEN /\ UNCHANGED <<examined, e, idx>>
            /\ Continue("found")
       ELSE /\ examined' = Append(examined, ds[idx].Name)
            /\ IF datastore = ds[idx].Name
                 THEN /\ e' = datastoreStats(ds[idx])
                      /\ UNCHANGED idx
                      /\ Continue("found")
                 ELSE /\ idx' = idx + 1
                      /\ UNCHANGED e
                      /\ Continue("scan")
  /\ UNCHANGED <<flagVars, u, responses, err, url, calls, view, deferred, hss, ds, summary>>

\* if e.name == "" { ...; os.Exit(1) }
CheckFound ==
  /\ pc = "found"
  /\ IF e.name = "" THEN Exit(1, "notfound") ELSE Continue("report")
  /\ UNCHANGED <<flagVars, u, responses, err, url, calls, view, deferred, hss, ds, idx, e, examined, summary>>

\* else: err = v.Retrieve(..., &hss); if err != nil { log.Fatal(err) }
RetrieveHosts ==
  /\ pc = "retrieve"
  /\ command # "VMFS"
  /\ calls' = Append(calls, "Retrieve")
  /\ \/ /\ responses' = Append(responses, "ok")
        /\ hss' \in SeqsUpTo(HostUniverse, MaxObjs)
        /\ idx' = 1
        /\ Continue("hosts")
     \/ /\ responses' = Append(responses, "error")
        /\ UNCHANGED <<hss, idx>>
        /\ Exit(1, "retrieve")
  /\ UNCHANGED <<flagVars, u, err, url, view, deferred, ds, e, examined, summary>>

\* the host loop keeping the first host's metric instead of the last one's
ProcessHost_FirstWins ==
  /\ pc = "hosts"
  /\ IF idx > Len(hss)
       THEN /\ UNCHANGED <<examined, e, idx>>
            /\ Continue("report")
       ELSE /\ examined' = Append(examined, hss[idx].Name)
            /\ e' = IF idx > 1 THEN e
                    ELSE IF command = "CPU" THEN cpuStats(hss[idx])
                    ELSE IF command = "MEM" THEN memStats(hss[idx])
                    ELSE e
            /\ idx' = idx + 1
            /\ Continue("hosts")
  /\ UNCHANGED <<flagVars, u, responses, err, url, calls, view, deferred, hss, ds, summary>>

\* one iteration of: for _, host := range hss { switch command { case "CPU":
\* e = cpuStats(host); case "MEM": e = memStats(host) } }
ProcessHost ==
  /\ pc = "hosts"
  /\ IF idx > Len(hss)
       THEN /\ UNCHANGED <<examined, e, idx>>
            /\ Continue("report")
       ELSE /\ examined' = Append(examined, hss[idx].Name)
            /\ e' = IF command = "CPU" THEN cpuStats(hss[idx])
                    ELSE IF command = "MEM" THEN memStats(hss[idx])
                    ELSE e
            /\ idx' = idx + 1
            /\ Continue("hosts")
  /\ UNCHANGED <<flagVars, u, responses, err, url, calls, view, deferred, hss, ds, summary>>

\* fmt.Println(e.name); fmt.Printf("total %f \n free %f \n remaining %s\n", ...)
Report ==
  /\ pc = "report"
  /\ summary' = Append(summary, [name |-> e.name, total |-> e.total,
                                 free |-> e.free, remaining |-> freePer(e)])
  /\ Continue("return")
  /\ UNCHANGED <<flagVars, u, responses, err, url, calls, view, deferred, hss, ds, idx, e, examined>>

\* a return that classifies the percentage against the warning threshold
Return_Thresholds ==
  /\ pc = "return"
  /\ IF deferred
       THEN /\ calls' = Append(calls, "Destroy")
            /\ view' = "destroyed"
       ELSE UNCHANGED <<calls, view>>
  /\ IF freePer(e).kind = "num" /\ freePer(e).hundredths < warning * 100
       THEN Exit(1, "completed") ELSE Exit(0, "completed")
  /\ UNCHANGED <<flagVars, u, responses, err, url, deferred, hss, ds, idx, e, examined, summary>>

\* main returns: the deferred v.Destroy(ctx) runs, the process exits with 0
Return ==
  /\ pc = "return"
  /\ IF deferred
       THEN /\ calls' = Append(calls, "Destroy")
            /\ view' = "destroyed"
       ELSE UNCHANGED <<calls, view>>
  /\ Exit(0, "completed")
  /\ UNCHANGED <<flagVars, u, responses, err, url, deferred, hss, ds, idx, e, examined, summary>>

Next ==
  \/ ParseFlags
  \/ CheckRequired
  \/ CheckCommandChoice
  \/ CheckDatastoreName
  \/ BuildURL
  \/ NewClient
  \/ CreateContainerView
  \/ RetrieveDatastores
  \/ ScanDatastore
  \/ CheckFound
  \/ RetrieveHosts
  \/ ProcessHost
  \/ Report
  \/ Return

Spec == Init /\ [][Next]_vars

(* ---------------------- urlCheck on its own ---------------------------- *)

InitUrl ==
  /\ InitCommon
  /\ hostname \in StringsUpTo(MaxUrlLen)
  /\ pc = "urlCheck"

UrlCheckCall ==
  /\ pc = "urlCheck"
  /\ url' = urlCheck(hostname)
  /\ pc' = "urlChecked"
  /\ UNCHANGED <<flagVars, u, responses, err, calls, view, deferred, hss, ds, idx, e,
                 examined, summary, exitCode, cause>>

NextUrl == UrlCheckCall

SpecUrl == InitUrl /\ [][NextUrl]_vars

(* ----------------------------- properties ------------------------------ *)

Exited == pc = "exited"

\* the Retrieve call returned without error
RetrieveSucceeded == Len(responses) = 3 /\ responses[3] = "ok"

\* positions of the datastores whose name is the target name
Matches == {i \in 1..Len(ds) : ds[i].Name = datastore}

FirstMatch == CHOOSE i \in Matches : \A j \in Matches : i <= j

Names(objs) == [i \in 1..Len(objs) |-> objs[i].Name]

\* C1: once the container view has been created, every exit of the process
\* (completion, a failed Retrieve, datastore not found) has destroyed it.
C1_ViewReleasedOnExit ==
  (Exited /\ deferred) => (view = "destroyed" /\ calls[Len(calls)] = "Destroy")

MissingFlags ==
  <<hostname = <<>>, warning = 0, critical = 0,
    username = "", password = "", command = "">>

MissingMessages ==
  <<"Hostname is required", "Must supply the warning percentage",
    "Must supply the critical percentage", "Must supply the username",
    "Must supply the password", "Must supply the command">>

\* C2: after validation the error is that of the first missing field in the
\* order hostname, warning, critical, username, password, command (a string
\* is missing when empty, a threshold when 0); there is no error iff nothing
\* is missing; a missing hostname is reported whatever else is missing; an
\* omitted threshold has its default (85, 90) and is never the one reported;
\* and the run fails on validation exactly when there is an error.
C2_FirstMissingReported ==
  (pc \notin {"parse", "check", "urlCheck", "urlChecked"}) =>
    /\ (err = NoError) <=> (\A i \in 1..6 : ~MissingFlags[i])
    /\ \A i \in 1..6 :
         (err = MissingMessages[i]) <=>
           (MissingFlags[i] /\ \A j \in 1..(i-1) : ~MissingFlags[j])
    /\ (hostname = <<>>) => (err = MissingMessages[1])
    /\ ("warning" \notin given) => (warning = 85 /\ err # MissingMessages[2])
    /\ ("critical" \notin given) => (critical = 90 /\ err # MissingMessages[3])
    /\ (err # NoError) <=> (Exited /\ cause = "validation" /\ exitCode = 1)

\* C2 witness: an explicit warning of 0 is reported although username and
\* command are missing too.
C2_Witness ==
  /\ Exited /\ cause = "validation"
  /\ hostname # <<>> /\ "warning" \in given /\ warning = 0
  /\ username = "" /\ command = ""
  /\ err = "Must supply the warning percentage"

\* C3: the process exits with code 2 exactly when validation passed and the
\* command is not one of CPU, MEM, VMFS or it is VMFS with an empty datastore
\* name; no Management Session call was made on such a run.
C3_ExitTwoOnlyForBadCommand ==
  Exited =>
    /\ (exitCode = 2) <=>
         /\ err = NoError
         /\ \/ command \notin {"CPU", "MEM", "VMFS"}
            \/ (command = "VMFS" /\ datastore = "")
    /\ (exitCode = 2) => (calls = <<>>)

\* C4: exit code 1 occurs iff the command is VMFS, the enumeration succeeded
\* and no returned datastore has the target name; no other termination path
\* exits with 1.
C4_ExitOneOnlyForNotFound ==
  Exited =>
    ((exitCode = 1) <=>
       (command = "VMFS" /\ RetrieveSucceeded /\ Matches = {}))

MatchesNonEmptySides(h) ==
  /\ \E i \in 2..(Len(h) - 3) : SubSeq(h, i, i + 2) = <<":", "/", "/">>
  /\ \A i \in 1..Len(h) : h[i] # NL

\* C6: urlCheck(h) returns h unchanged iff h matches ^.+://.+$ and returns
\* "https://" + h + "/sdk" for every other h.
C6_UnchangedIffSchemeAndRest ==
  (pc = "urlChecked") =>
    /\ (url = hostname) <=> MatchesNonEmptySides(hostname)
    /\ ~MatchesNonEmptySides(hostname) => (url = Https \o hostname \o Sdk)

\* C7: no summary is printed whose percentage is undefined: when the total
\* is 0 (zero hosts included) the printed percentage is still a number, or
\* nothing is printed.
C7_NoUndefinedPercentage ==
  \A i \in 1..Len(summary) : summary[i].remaining.kind = "num"

\* the exit code as a function of everything but the thresholds
ExitWithoutThresholds ==
  IF hostname = <<>> \/ username = "" \/ password = "" \/ command = "" THEN 1
  ELSE IF command \notin {"CPU", "MEM", "VMFS"} THEN 2
  ELSE IF command = "VMFS" /\ datastore = "" THEN 2
  ELSE IF u = "nil" THEN 2
  ELSE IF \E i \in 1..Len(responses) : responses[i] = "error" THEN 1
  ELSE IF command = "VMFS" /\ Matches = {} THEN 1
  ELSE 0

\* the final resource as a function of everything but the thresholds
ResourceWithoutThresholds ==
  IF ~RetrieveSucceeded THEN ZeroResource
  ELSE IF command = "VMFS"
    THEN IF Matches = {} THEN ZeroResource
         ELSE [name |-> ds[FirstMatch].Name,
               total |-> ds[FirstMatch].Capacity,
               free |-> ds[FirstMatch].FreeSpace]
  ELSE IF hss = <<>> THEN ZeroResource
  ELSE LET h == hss[Len(hss)]
       IN IF command = "CPU"
            THEN [name |-> h.Name, total |-> h.CpuMhz * h.NumCpuCores,
                  free |-> h.CpuMhz * h.NumCpuCores - h.OverallCpuUsage]
            ELSE [name |-> h.Name, total |-> h.MemorySize \div 1048576,
                  free |-> h.MemorySize \div 1048576 - h.OverallMemoryUsage]

\* C8: when both thresholds are non-zero, the exit code and the final
\* resource are determined by the other flags and the session's responses
\* alone (so two runs differing only in their thresholds end alike), and a
\* run that printed the summary exits with 0.
C8_ThresholdsIgnored ==
  (Exited /\ warning # 0 /\ critical # 0) =>
    /\ exitCode = ExitWithoutThresholds
    /\ e = ResourceWithoutThresholds
    /\ \A i \in 1..Len(summary) :
         /\ summary[i].name = e.name
         /\ summary[i].total = e.total
         /\ summary[i].free = e.free
    /\ (summary # <<>>) => (exitCode = 0)

\* C8 witness: a completed run under a supplied warning threshold of 50
\* whose free percentage (75.00 or 62.50) lies between 50 and the default 85.
C8_Witness ==
  /\ Exited /\ exitCode = 0 /\ summary # <<>>
  /\ warning = 50 /\ critical = 95
  /\ summary[1].remaining.kind = "num"
  /\ summary[1].remaining.hundredths > 5000
  /\ summary[1].remaining.hundredths < 8500

\* C9: for CPU or MEM with a non-empty host sequence, every host is examined
\* in enumeration order and the reported resource is the metric of the last
\* host alone.
C9_LastHostWins ==
  (pc \in {"report", "return", "exited"} /\ command \in {"CPU", "MEM"}
     /\ RetrieveSucceeded /\ hss # <<>>) =>
    /\ examined = Names(hss)
    /\ e = IF command = "CPU" THEN cpuStats(hss[Len(hss)])
                              ELSE memStats(hss[Len(hss)])
    /\ \A i \in 1..Len(summary) :
         /\ summary[i].name = hss[Len(hss)].Name
         /\ summary[i].total = e.total
         /\ summary[i].free = e.free
         /\ summary[i].remaining = freePer(e)

\* C9 witness: a completed CPU run over two hosts of different names and
\* different capacities.
C9_Witness ==
  /\ Exited /\ command = "CPU" /\ exitCode = 0
  /\ Len(hss) = 2
  /\ hss[1].Name # hss[2].Name /\ hss[1].CpuMhz = 2000 /\ hss[2].CpuMhz = 0
  /\ summary[1].name = hss[2].Name /\ summary[1].total = 0

\* C10: after a host is processed, the resource carries the host's name and,
\* for CPU, total = CpuMhz * NumCpuCores and free = total - OverallCpuUsage
\* (2000, 4, 3000 gives 8000 and 5000); for MEM, total = MemorySize /
\* (1024*1024) and free = total - OverallMemoryUsage; free <= total when
\* the usage is not negative.
C10_MetricFormulas ==
  (pc \in {"hosts", "report", "return", "exited"} /\ command \in {"CPU", "MEM"}
     /\ RetrieveSucceeded /\ idx > 1) =>
    LET h == hss[idx - 1]
        usage == IF command = "CPU" THEN h.OverallCpuUsage
                 ELSE h.OverallMemoryUsage
    IN /\ e.name = h.Name
       /\ (command = "CPU") => (e.total = h.CpuMhz * h.NumCpuCores)
       /\ (command = "MEM") => (e.total * (1024 * 1024) = h.MemorySize)
       /\ e.free = e.total - usage
       /\ (usage >= 0) => (e.free <= e.total)
       /\ (command = "CPU" /\ h.CpuMhz = 2000 /\ h.NumCpuCores = 4
             /\ h.OverallCpuUsage = 3000) =>
            (e.total = 8000 /\ e.free = 5000)

\* C10 witness: the CPU metric of a host with 2000 MHz, 4 cores and 3000 MHz
\* in use has just been computed.
C10_Witness ==
  /\ pc = "hosts" /\ command = "CPU" /\ idx = 2
  /\ hss[1].CpuMhz = 2000 /\ hss[1].NumCpuCores = 4
  /\ hss[1].OverallCpuUsage = 3000
  /\ e = [name |-> hss[1].Name, total |-> 8000, free |-> 5000]

====
